---- MODULE Spec2Model ----
(***************************************************************************)
(* Model of the request-gating middleware (src/src/middleware.ts), the     *)
(* configuration loader (lib/config), the error taxonomy (lib/errors) and  *)
(* the cache-aside weather endpoint (src/src/app/api/weather/route.ts).    *)
(*                                                                         *)
(* Times are milliseconds, as returned by Date.now().  Strings are TLA+    *)
(* strings; the string helpers below are the JavaScript String methods the *)
(* code calls.                                                             *)
(***************************************************************************)
EXTENDS Integers, Sequences, FiniteSets, TLC

VARIABLES
    env,            \* process.env, fixed at process start
    config,         \* the AppConfig getConfig() returns: process.env never changes
    now,            \* Date.now()
    rateLimitMap,   \* middleware.ts: rateLimitMap, a function on the keys present
    rlResult,       \* value returned by the last checkRateLimit call
    rlCall,         \* ghost: the last checkRateLimit call (tier, time, entry before)
    run,            \* ghost: same-tier requests since the client last started a window
    tierAllowed,    \* ghost: per tier, the requests of the client allowed since
                    \* its entry was last created
    mwResponse,     \* response of the last request that reached the edge
    apiRun,         \* ghost: clean /api/weather requests of the client in one api window
    mwCall,         \* ghost: the last request that reached the edge, and what
                    \* handleCors returned for it if the middleware called it
    cache,          \* route.ts: cache, a Map kept in insertion order
    cacheOp,        \* ghost: the last getCachedData / setCachedData call and its result
    lastPut,        \* ghost, kept in the behaviours that start with it switched
                    \* on: per cache key, the snapshot GET last stored and when
    handlers        \* route.ts GET: the invocation of each handler slot, with the
                    \* ghost fields fetches (upstream fetches it issued) and
                    \* failure (what went wrong for it, as the environment saw it)

vars == << env, config, now, rateLimitMap, rlResult, rlCall, run, tierAllowed,
           mwResponse, apiRun, mwCall, cache, cacheOp, lastPut, handlers >>

rlVars    == << rateLimitMap, rlResult, rlCall, run, tierAllowed >>
mwVars    == << mwResponse, apiRun, mwCall >>
cacheVars == << cache, cacheOp >>
getVars   == << lastPut, handlers >>

-----------------------------------------------------------------------------
(* JavaScript string methods *)

StartsWith(s, p) == Len(s) >= Len(p) /\ SubSeq(s, 1, Len(p)) = p

EndsWith(s, p) == Len(s) >= Len(p) /\ SubSeq(s, Len(s) - Len(p) + 1, Len(s)) = p

Includes(s, p) ==
    \E i \in 1..(Len(s) - Len(p) + 1) : SubSeq(s, i, i + Len(p) - 1) = p

CharAt(s, i) == SubSeq(s, i, i)

UpperLetters == << "A","B","C","D","E","F","G","H","I","J","K","L","M",
                   "N","O","P","Q","R","S","T","U","V","W","X","Y","Z" >>
LowerLetters == << "a","b","c","d","e","f","g","h","i","j","k","l","m",
                   "n","o","p","q","r","s","t","u","v","w","x","y","z" >>

LowerChar(c) ==
    IF \E i \in 1..26 : UpperLetters[i] = c
    THEN LowerLetters[CHOOSE i \in 1..26 : UpperLetters[i] = c]
    ELSE c

RECURSIVE ToLowerCase(_)
ToLowerCase(s) ==
    IF Len(s) = 0 THEN ""
    ELSE LowerChar(CharAt(s, 1)) \o ToLowerCase(SubSeq(s, 2, Len(s)))

IsSpaceChar(c) == c \in {" ", "\t", "\n", "\r"}

RECURSIVE TrimStart(_)
TrimStart(s) ==
    IF Len(s) > 0 /\ IsSpaceChar(CharAt(s, 1))
    THEN TrimStart(SubSeq(s, 2, Len(s)))
    ELSE s

RECURSIVE TrimEnd(_)
TrimEnd(s) ==
    IF Len(s) > 0 /\ IsSpaceChar(CharAt(s, Len(s)))
    THEN TrimEnd(SubSeq(s, 1, Len(s) - 1))
    ELSE s

Trim(s) == TrimEnd(TrimStart(s))

\* s.split(',')[0]
FirstCommaField(s) ==
    IF \E i \in 1..Len(s) : CharAt(s, i) = ","
    THEN LET i == CHOOSE j \in 1..Len(s) :
                    /\ CharAt(s, j) = ","
                    /\ \A k \in 1..(j - 1) : CharAt(s, k) # ","
         IN SubSeq(s, 1, i - 1)
    ELSE s

Digits == << "0","1","2","3","4","5","6","7","8","9" >>
IsDigit(c) == \E i \in 1..10 : Digits[i] = c
DigitValue(c) == (CHOOSE i \in 1..10 : Digits[i] = c) - 1

\* number of leading decimal digits of s
RECURSIVE DigitPrefixLen(_)
DigitPrefixLen(s) ==
    IF Len(s) > 0 /\ IsDigit(CharAt(s, 1))
    THEN 1 + DigitPrefixLen(SubSeq(s, 2, Len(s)))
    ELSE 0

RECURSIVE DigitsValue(_)
DigitsValue(s) ==
    IF Len(s) = 0 THEN 0
    ELSE 10 * DigitsValue(SubSeq(s, 1, Len(s) - 1)) + DigitValue(CharAt(s, Len(s)))

\* parseInt(value, 10).  NaN is the record [nan |-> TRUE]; a number is
\* [nan |-> FALSE, value |-> n].
ParseInt(value) ==
    LET t    == TrimStart(value)
        neg  == Len(t) > 0 /\ CharAt(t, 1) = "-"
        sgn  == Len(t) > 0 /\ CharAt(t, 1) \in {"-", "+"}
        body == IF sgn THEN SubSeq(t, 2, Len(t)) ELSE t
        n    == DigitPrefixLen(body)
    IN IF n = 0 THEN [nan |-> TRUE]
       ELSE [nan |-> FALSE,
             value |-> (IF neg THEN -1 ELSE 1) * DigitsValue(SubSeq(body, 1, n))]

-----------------------------------------------------------------------------
(* lib/config: environment access.  An unset variable is the empty string: *)
(* every reader tests `!value`, which treats both alike.                   *)

getRequiredEnvVar(key) ==
    IF env[key] = ""
    THEN [ threw |-> TRUE,
           error |-> [ isApiError |-> FALSE, name |-> "Error",
                       message |-> "Missing required environment variable: " \o key ] ]
    ELSE [ threw |-> FALSE, value |-> env[key] ]

getOptionalEnvVar(key, defaultValue) ==
    IF env[key] # "" THEN env[key] ELSE defaultValue

getBooleanEnvVar(key, defaultValue) ==
    IF env[key] = "" THEN defaultValue ELSE ToLowerCase(env[key]) = "true"

getNumberEnvVar(key, defaultValue) ==
    IF env[key] = "" THEN defaultValue
    ELSE LET parsed == ParseInt(env[key])
         IN IF parsed.nan THEN defaultValue ELSE parsed.value

\* value.split(',')
RECURSIVE Split(_)
Split(s) ==
    IF \E i \in 1..Len(s) : CharAt(s, i) = ","
    THEN << FirstCommaField(s) >>
         \o Split(SubSeq(s, Len(FirstCommaField(s)) + 2, Len(s)))
    ELSE << s >>

\* items.map(trim).filter(Boolean)
RECURSIVE TrimAndDropEmpty(_)
TrimAndDropEmpty(items) ==
    IF items = << >> THEN << >>
    ELSE (IF Trim(Head(items)) = "" THEN << >> ELSE << Trim(Head(items)) >>)
         \o TrimAndDropEmpty(Tail(items))

parseStringArray(value, defaultValue) ==
    IF value = "" THEN defaultValue ELSE TrimAndDropEmpty(Split(value))

\* getConfig throws, at every call, when OPENWEATHER_API_KEY is unset.
getConfigThrows == getRequiredEnvVar("OPENWEATHER_API_KEY").threw

\* The AppConfig returned; when getConfig throws, the fields it would have
\* computed after the key (no caller reads them: each throws first).
getConfig ==
    [ openWeatherApiKey    |-> env["OPENWEATHER_API_KEY"],
      allowedOrigins       |-> parseStringArray(
                                  getOptionalEnvVar("ALLOWED_ORIGINS",
                                                    "http://localhost:3000"),
                                  << "http://localhost:3000" >>),
      trustedHosts         |-> parseStringArray(
                                  getOptionalEnvVar("TRUSTED_HOSTS",
                                                    "localhost,localhost:3000"),
                                  << "localhost", "localhost:3000" >>),
      cacheTtlSeconds      |-> getNumberEnvVar("CACHE_TTL_SECONDS", 300),
      cacheMaxSize         |-> getNumberEnvVar("CACHE_MAX_SIZE", 100),
      nodeEnv              |-> getOptionalEnvVar("NODE_ENV", "development"),
      enableCache          |-> getBooleanEnvVar("ENABLE_CACHE", TRUE),
      enableRateLimiting   |-> getBooleanEnvVar("ENABLE_RATE_LIMITING", TRUE),
      enableRequestLogging |-> getBooleanEnvVar("ENABLE_REQUEST_LOGGING", TRUE) ]

getCorsConfig ==
    [ origin         |-> config.allowedOrigins,
      methods        |-> << "GET", "POST", "PUT", "DELETE", "OPTIONS" >>,
      allowedHeaders |-> << "Content-Type", "Authorization", "X-Requested-With" >>,
      credentials    |-> TRUE,
      maxAge         |-> 86400 ]

isTrustedHostSuffix(host) ==
    \E i \in 1..Len(config.trustedHosts) :
        \/ host = config.trustedHosts[i]
        \/ EndsWith(host, config.trustedHosts[i])

isTrustedHost(host) ==
    \E i \in 1..Len(config.trustedHosts) :
        \/ host = config.trustedHosts[i]
        \/ EndsWith(host, "." \o config.trustedHosts[i])

-----------------------------------------------------------------------------
(* middleware.ts: rate limiter *)

RATE_LIMIT_CONFIG ==
    [ general |-> [ maxRequests   |-> 100,
                    windowMs      |-> 15 * 60 * 1000,
                    blockDuration |-> 5 * 60 * 1000 ],
      api     |-> [ maxRequests   |-> 50,
                    windowMs      |-> 5 * 60 * 1000,
                    blockDuration |-> 10 * 60 * 1000 ],
      search  |-> [ maxRequests   |-> 30,
                    windowMs      |-> 1 * 60 * 1000,
                    blockDuration |-> 2 * 60 * 1000 ] ]

\* A header that is absent is the empty string: every reader of a header
\* tests it with || or !, which treat null and "" alike.
Or(a, b) == IF a # "" THEN a ELSE b

getClientIdentifier(request) ==
    LET h  == request.headers
        ip == Or(h.cfConnectingIp,
                 Or(h.realIp,
                    Or(IF h.forwardedFor # ""
                       THEN Trim(FirstCommaField(h.forwardedFor)) ELSE "",
                       "unknown")))
        userAgent == Or(h.userAgent, "unknown")
    IN ip \o ":" \o userAgent

\* The name of the tier getRateLimitConfig returns for a path.
getRateLimitTierMut(path) ==
    IF Includes(path, "search") \/ Includes(path, "suggest") THEN "search"
    ELSE IF StartsWith(path, "/api/weather") THEN "api"
    ELSE "general"

getRateLimitTier(path) ==
    IF StartsWith(path, "/api/weather") THEN "api"
    ELSE IF Includes(path, "search") \/ Includes(path, "suggest") THEN "search"
    ELSE "general"

getRateLimitConfig(request) == RATE_LIMIT_CONFIG[getRateLimitTier(request.path)]

\* Math.ceil(a / b) for a >= 0, b > 0
CeilDiv(a, b) == (a + b - 1) \div b

\* clientData?.blockedUntil is truthy: the field is present and not 0
HasBlockedUntil(clientData) ==
    "blockedUntil" \in DOMAIN clientData /\ clientData.blockedUntil # 0

\* line 87: clientData?.blockedUntil && now < clientData.blockedUntil
IsBlocked(m, clientId, t) ==
    /\ clientId \in DOMAIN m
    /\ HasBlockedUntil(m[clientId])
    /\ t < m[clientId].blockedUntil

\* line 88
BlockRemainingMut(clientData, t) == (clientData.blockedUntil - t) \div 1000
BlockRemaining(clientData, t) == CeilDiv(clientData.blockedUntil - t, 1000)

\* line 93: !clientData || now > clientData.resetTime
WindowExpiredMut(m, clientId, t) ==
    clientId \notin DOMAIN m
WindowExpired(m, clientId, t) ==
    clientId \notin DOMAIN m \/ t > m[clientId].resetTime

\* lines 94-98
FreshEntry(t, rateLimitConfig) ==
    [ count |-> 1, resetTime |-> t + rateLimitConfig.windowMs, lastRequest |-> t ]

\* line 103
LimitExceededMut(clientData, rateLimitConfig) ==
    clientData.count > rateLimitConfig.maxRequests
LimitExceeded(clientData, rateLimitConfig) ==
    clientData.count >= rateLimitConfig.maxRequests

EmptyHeaders == [ h \in {} |-> "" ]

JsonContentType == [ h \in { "Content-Type" } |-> "application/json" ]

\* m with key k set to v (Map.set)
MapSet(m, k, v) == [ x \in DOMAIN m \cup {k} |-> IF x = k THEN v ELSE m[x] ]

\* checkRateLimit: the map after the call and the value returned.
\* line 76: the early return of the disabled mode
RateLimitingOffMut == FALSE

RateLimitingOff == ~config.enableRateLimiting

\* lines 111-112: clientData.count++; clientData.lastRequest = now
IncrementMut(entry, t) == [ entry EXCEPT !.lastRequest = t ]

Increment(entry, t) == [ entry EXCEPT !.count = @ + 1, !.lastRequest = t ]

checkRateLimit(m, request, t) ==
    LET clientId        == getClientIdentifier(request)
        rateLimitConfig == getRateLimitConfig(request)
    IN
    IF RateLimitingOff
    THEN [ map |-> m, result |-> [ allowed |-> TRUE ] ]
    ELSE IF IsBlocked(m, clientId, t)
    THEN [ map |-> m,
           result |-> [ allowed |-> FALSE,
                        blockRemaining |-> BlockRemaining(m[clientId], t) ] ]
    ELSE IF WindowExpired(m, clientId, t)
    THEN [ map |-> MapSet(m, clientId, FreshEntry(t, rateLimitConfig)),
           result |-> [ allowed |-> TRUE ] ]
    ELSE IF LimitExceeded(m[clientId], rateLimitConfig)
    THEN [ map |-> MapSet(m, clientId,
                      [ count       |-> m[clientId].count,
                        resetTime   |-> m[clientId].resetTime,
                        lastRequest |-> m[clientId].lastRequest,
                        blockedUntil |-> t + rateLimitConfig.blockDuration ]),
           result |-> [ allowed |-> FALSE,
                        retryAfter |-> CeilDiv(rateLimitConfig.blockDuration, 1000) ] ]
    ELSE [ map |-> MapSet(m, clientId, Increment(m[clientId], t)),
           result |-> [ allowed |-> TRUE ] ]

-----------------------------------------------------------------------------
(* middleware.ts: request gating *)

\* n.toString(), also `${n}`
RECURSIVE NumberToString(_)
NumberToString(n) ==
    IF n < 0 THEN "-" \o NumberToString(-n)
    ELSE IF n < 10 THEN Digits[n + 1]
    ELSE NumberToString(n \div 10) \o Digits[(n % 10) + 1]

\* items.join(', ')
RECURSIVE Join(_)
Join(items) ==
    IF items = << >> THEN ""
    ELSE IF Len(items) = 1 THEN Head(items)
    ELSE Head(items) \o ", " \o Join(Tail(items))

SeqContainsAny(items, x) == TRUE
SeqContains(items, x) == \E i \in 1..Len(items) : items[i] = x

validateTrustedHost(request) ==
    IF request.headers.host = "" THEN FALSE
    ELSE isTrustedHost(request.headers.host)

validateRequestHeadersProductionOnly(request) ==
    IF config.nodeEnv # "production" THEN TRUE
    ELSE /\ request.headers.xForwardedHost = ""
         /\ request.headers.xOriginalUrl = ""
         /\ request.headers.xRewriteUrl = ""

validateRequestHeaders(request) ==
    IF config.nodeEnv = "development" THEN TRUE
    ELSE /\ request.headers.xForwardedHost = ""
         /\ request.headers.xOriginalUrl = ""
         /\ request.headers.xRewriteUrl = ""

\* Headers of a response: a function on the names that are set.
\* lines 151-180: the headers set whatever the configuration
BasicSecurityHeaders ==
    [ h \in { "X-Content-Type-Options", "X-Frame-Options", "X-XSS-Protection",
              "Referrer-Policy", "Permissions-Policy", "X-DNS-Prefetch-Control",
              "X-Download-Options", "X-Permitted-Cross-Domain-Policies",
              "Content-Security-Policy" } |->
        CASE h = "X-Content-Type-Options" -> "nosniff"
          [] h = "X-Frame-Options" -> "DENY"
          [] h = "X-XSS-Protection" -> "1; mode=block"
          [] h = "Referrer-Policy" -> "strict-origin-when-cross-origin"
          [] h = "Permissions-Policy" ->
                 "camera=(), microphone=(), geolocation=(), payment=()"
          [] h = "X-DNS-Prefetch-Control" -> "off"
          [] h = "X-Download-Options" -> "noopen"
          [] h = "X-Permitted-Cross-Domain-Policies" -> "none"
          [] OTHER -> "default-src 'self'; ..." ]

\* headers with every header of extra set (Headers.set for each)
SetAll(headers, extra) ==
    [ h \in DOMAIN headers \cup DOMAIN extra |->
        IF h \in DOMAIN extra THEN extra[h] ELSE headers[h] ]

addSecurityHeaders(headers) ==
    IF config.nodeEnv = "production"
    THEN MapSet(SetAll(headers, BasicSecurityHeaders), "Strict-Transport-Security",
                "max-age=31536000; includeSubDomains; preload")
    ELSE SetAll(headers, BasicSecurityHeaders)

\* handleCors: the response object it returns, and the headers it leaves on
\* the response it was given (which it mutates only for non-preflight requests).
handleCors(request, headers) ==
    LET corsConfig == getCorsConfig
        origin     == request.headers.origin
        allowed    == origin # "" /\ SeqContains(corsConfig.origin, origin)
        withOrigin(h) == IF allowed THEN MapSet(h, "Access-Control-Allow-Origin", origin)
                         ELSE h
        withCreds(h)  == IF corsConfig.credentials
                         THEN MapSet(h, "Access-Control-Allow-Credentials", "true")
                         ELSE h
    IN IF request.method = "OPTIONS"
       THEN [ given    |-> headers,
              returned |->
                [ kind |-> "response", status |-> 200, body |-> "",
                  headers |->
                    withCreds(
                      MapSet(
                        MapSet(
                          MapSet(withOrigin(EmptyHeaders),
                                 "Access-Control-Allow-Methods",
                                 Join(corsConfig.methods)),
                          "Access-Control-Allow-Headers",
                          Join(corsConfig.allowedHeaders)),
                        "Access-Control-Max-Age", NumberToString(corsConfig.maxAge))) ] ]
       ELSE [ given    |-> withCreds(withOrigin(headers)),
              returned |-> [ kind |-> "next", status |-> 200, body |-> "",
                             headers |-> withCreds(withOrigin(headers)) ] ]

\* config.matcher: '/((?!api|_next/static|_next/image|favicon.ico|robots.txt|sitemap.xml).*)'
\* anchored at both ends; '.' in the alternatives stands for any one character.
MatcherExcluded == << "api", "_next/static", "_next/image",
                      "favicon.ico", "robots.txt", "sitemap.xml" >>

\* s starts with pattern p, where '.' in p matches any one character
StartsWithPattern(s, p) ==
    /\ Len(s) >= Len(p)
    /\ \A i \in 1..Len(p) : CharAt(p, i) = "." \/ CharAt(p, i) = CharAt(s, i)

MatcherMatches(path) ==
    /\ StartsWith(path, "/")
    /\ \A i \in 1..Len(MatcherExcluded) :
          ~StartsWithPattern(SubSeq(path, 2, Len(path)), MatcherExcluded[i])

\* middleware(request): the rate-limit map after the call, the value returned by
\* checkRateLimit when it was called, and the response returned.
middlewareRateLimitFirst(m, request, t) ==
    LET out == checkRateLimit(m, request, t)
    IN
    IF ~validateTrustedHost(request)
    THEN [ map |-> out.map, checked |-> FALSE,
           response |-> [ kind |-> "response", status |-> 403, body |-> "Forbidden",
                          headers |-> EmptyHeaders ] ]
    ELSE IF ~validateRequestHeaders(request)
    THEN [ map |-> out.map, checked |-> FALSE,
           response |-> [ kind |-> "response", status |-> 400, body |-> "Bad Request",
                          headers |-> EmptyHeaders ] ]
    ELSE IF config.enableRateLimiting /\ ~out.result.allowed
    THEN [ map |-> out.map, checked |-> TRUE,
           response |->
             [ kind |-> "response", status |-> 429, body |-> "Rate limit exceeded",
               headers |->
                 IF "retryAfter" \in DOMAIN out.result /\ out.result.retryAfter # 0
                 THEN MapSet(JsonContentType, "Retry-After",
                             NumberToString(out.result.retryAfter))
                 ELSE JsonContentType ] ]
    ELSE [ map |-> IF config.enableRateLimiting THEN out.map ELSE m,
           checked |-> config.enableRateLimiting,
           response |->
             [ kind |-> "next", status |-> 200, body |-> "",
               headers |->
                 handleCors(request, addSecurityHeaders(EmptyHeaders)).given ] ]

middleware(m, request, t) ==
    LET out == checkRateLimit(m, request, t)
    IN
    IF ~validateTrustedHost(request)
    THEN [ map |-> m, checked |-> FALSE,
           response |-> [ kind |-> "response", status |-> 403, body |-> "Forbidden",
                          headers |-> EmptyHeaders ] ]
    ELSE IF ~validateRequestHeaders(request)
    THEN [ map |-> m, checked |-> FALSE,
           response |-> [ kind |-> "response", status |-> 400, body |-> "Bad Request",
                          headers |-> EmptyHeaders ] ]
    ELSE IF config.enableRateLimiting /\ ~out.result.allowed
    THEN [ map |-> out.map, checked |-> TRUE,
           response |->
             [ kind |-> "response", status |-> 429, body |-> "Rate limit exceeded",
               headers |->
                 IF "retryAfter" \in DOMAIN out.result /\ out.result.retryAfter # 0
                 THEN MapSet(JsonContentType, "Retry-After",
                             NumberToString(out.result.retryAfter))
                 ELSE JsonContentType ] ]
    ELSE [ map |-> IF config.enableRateLimiting THEN out.map ELSE m,
           checked |-> config.enableRateLimiting,
           response |->
             [ kind |-> "next", status |-> 200, body |-> "",
               headers |->
                 handleCors(request, addSecurityHeaders(EmptyHeaders)).given ] ]

-----------------------------------------------------------------------------
(* route.ts: the weather cache.  A Map keeps its keys in insertion order, so *)
(* the cache is the sequence of its entries [key, data, timestamp].          *)

Null == [ isNull |-> TRUE ]

CacheHas(c, cacheKey) == \E i \in 1..Len(c) : c[i].key = cacheKey

\* cache.get(cacheKey), for a key that is present
CacheGet(c, cacheKey) == c[CHOOSE i \in 1..Len(c) : c[i].key = cacheKey]

\* cache.delete(cacheKey)
CacheDelete(c, cacheKey) == SelectSeq(c, LAMBDA e : e.key # cacheKey)

\* cache.set(cacheKey, value): an existing key keeps its place
CacheSet(c, cacheKey, value) ==
    LET entry == [ key |-> cacheKey, data |-> value.data,
                   timestamp |-> value.timestamp ]
    IN IF CacheHas(c, cacheKey)
       THEN [ i \in 1..Len(c) |-> IF c[i].key = cacheKey THEN entry ELSE c[i] ]
       ELSE Append(c, entry)

\* line 82: cacheAge > maxAge
IsExpiredNever(cached, t) == FALSE
IsExpiredMut(cached, t) == t - cached.timestamp >= config.cacheTtlSeconds * 1000
IsExpired(cached, t) == t - cached.timestamp > config.cacheTtlSeconds * 1000

getCachedDataRefresh(c, cacheKey, t) ==
    IF ~config.enableCache THEN [ cache |-> c, value |-> Null ]
    ELSE IF ~CacheHas(c, cacheKey) THEN [ cache |-> c, value |-> Null ]
    ELSE IF IsExpired(CacheGet(c, cacheKey), t)
    THEN [ cache |-> CacheDelete(c, cacheKey), value |-> Null ]
    ELSE [ cache |-> CacheSet(c, cacheKey, [ data |-> CacheGet(c, cacheKey).data,
                                             timestamp |-> t ]),
           value |-> CacheGet(c, cacheKey).data ]

\* getCachedData: the cache after the call and the value returned.
getCachedData(c, cacheKey, t) ==
    IF ~config.enableCache THEN [ cache |-> c, value |-> Null ]
    ELSE IF ~CacheHas(c, cacheKey) THEN [ cache |-> c, value |-> Null ]
    ELSE IF IsExpired(CacheGet(c, cacheKey), t)
    THEN [ cache |-> CacheDelete(c, cacheKey), value |-> Null ]
    ELSE [ cache |-> c, value |-> CacheGet(c, cacheKey).data ]

\* entries.sort((a, b) => a[1].timestamp - b[1].timestamp): Array.prototype.sort
\* is stable, so entries of equal timestamp keep their insertion order.
RECURSIVE InsertByTimestamp(_, _)
InsertByTimestamp(sorted, e) ==
    IF sorted = << >> THEN << e >>
    ELSE IF Head(sorted).timestamp <= e.timestamp
    THEN << Head(sorted) >> \o InsertByTimestamp(Tail(sorted), e)
    ELSE << e >> \o sorted

RECURSIVE SortByTimestamp(_)
SortByTimestamp(entries) ==
    IF entries = << >> THEN << >>
    ELSE InsertByTimestamp(
            SortByTimestamp(SubSeq(entries, 1, Len(entries) - 1)),
            entries[Len(entries)])

\* Math.ceil(n * 0.1); in IEEE doubles this is the exact ceiling of n / 10 for
\* every integer n from -50 to 2000.
FloorTenth(n) == n \div 10

CeilTenth(n) == -((-n) \div 10)

\* lines 104-106: delete entries[0 .. toRemove-1]
RECURSIVE DeleteFirst(_, _, _)
DeleteFirst(c, entries, toRemove) ==
    IF toRemove <= 0 THEN c
    ELSE DeleteFirst(CacheDelete(c, Head(entries).key), Tail(entries), toRemove - 1)

\* lines 98-107
Evict(c) ==
    IF Len(c) >= config.cacheMaxSize
    THEN DeleteFirst(c, SortByTimestamp(c), CeilTenth(config.cacheMaxSize))
    ELSE c

\* lines 109-112
StoreMut(c, cacheKey, data, t) == c
Store(c, cacheKey, data, t) ==
    CacheSet(c, cacheKey, [ data |-> data, timestamp |-> t ])

\* setCachedData: the cache after the call.
setCachedDataMut(c, cacheKey, data, t) ==
    IF ~config.enableCache THEN c
    ELSE Evict(Store(c, cacheKey, data, t))
setCachedData(c, cacheKey, data, t) ==
    IF ~config.enableCache THEN c
    ELSE Store(Evict(c), cacheKey, data, t)

-----------------------------------------------------------------------------
(* State after module load, and the clock *)

EnvKeys == { "OPENWEATHER_API_KEY", "CACHE_TTL_SECONDS", "CACHE_MAX_SIZE", "NODE_ENV", "ENABLE_CACHE",
             "ENABLE_RATE_LIMITING", "ENABLE_REQUEST_LOGGING", "TRUSTED_HOSTS",
             "ALLOWED_ORIGINS" }

\* process.env with the given variables set; of the others the provider key
\* is set and the rest are unset
EnvWith(set) ==
    [ k \in EnvKeys |-> IF k \in DOMAIN set THEN set[k]
                        ELSE IF k = "OPENWEATHER_API_KEY" THEN "test-key"
                        ELSE "" ]

EmptyMap == [ k \in {} |-> 0 ]

NoCall == [ kind |-> "none" ]

\* The handler slots, and a slot no invocation has used yet.
Handlers == { "h1" }
Idle == [ pc |-> "idle" ]

NoRun  == [ tier |-> "none", first |-> 0, n |-> 0 ]

NoPuts(tracked) == [ tracked |-> tracked, puts |-> EmptyMap ]

NoneAllowed == [ general |-> 0, api |-> 0, search |-> 0 ]

\* env is chosen first; the rest is the state after module load.
InitState ==
    /\ config = getConfig
    /\ now = 0
    /\ rateLimitMap = EmptyMap
    /\ rlResult = NoCall
    /\ rlCall = NoCall
    /\ run = NoRun
    /\ tierAllowed = NoneAllowed
    /\ mwResponse = NoCall
    /\ apiRun = NoRun
    /\ mwCall = NoCall
    /\ cache = << >>
    /\ cacheOp = NoCall
    /\ lastPut = NoPuts(FALSE)
    /\ handlers = [ h \in Handlers |-> Idle ]

\* Bound: the rate-limiter clock runs over MaxMinutes minutes.
MaxMinutes == 5

\* The instants at which the clock is observed: each whole minute and the
\* millisecond after it.
RLInstants == { m * (60 * 1000) + o : m \in 0..MaxMinutes, o \in {0, 1} }

TickRL ==
    /\ \E t \in RLInstants : t > now /\ now' = t
    /\ UNCHANGED << env, config, rlVars, mwVars, cacheVars, getVars >>

-----------------------------------------------------------------------------
(* checkRateLimit called directly, for any path *)

RLHeaders ==
    { [ cfConnectingIp |-> "", realIp |-> "203.0.113.7",
        forwardedFor |-> "", userAgent |-> "Mozilla" ],
      [ cfConnectingIp |-> "203.0.113.7", realIp |-> "10.0.0.1",
        forwardedFor |-> "", userAgent |-> "Mozilla" ] }

RLPaths == { "/", "/api/weather", "/search", "/suggest", "/api/weather/search" }

RLRequests == { [ headers |-> h, path |-> p ] : h \in RLHeaders, p \in RLPaths }

\* What the ghost rlCall keeps of the entry a call found.
EntryView(m, clientId) ==
    IF clientId \in DOMAIN m
    THEN [ had |-> TRUE, count |-> m[clientId].count,
           resetTime |-> m[clientId].resetTime,
           blockedUntil |-> IF "blockedUntil" \in DOMAIN m[clientId]
                            THEN m[clientId].blockedUntil ELSE 0 ]
    ELSE [ had |-> FALSE, count |-> 0, resetTime |-> 0, blockedUntil |-> 0 ]

\* Ghost: the run of same-tier requests a client has made since it last
\* started a window (no entry, or window over and no block in force).
NextRun(r, pre, tier, t) ==
    LET cfg == RATE_LIMIT_CONFIG[tier]
        blocked    == pre.blockedUntil # 0 /\ t < pre.blockedUntil
        freshStart == ~pre.had \/ (~blocked /\ t > pre.resetTime)
    IN IF freshStart THEN [ tier |-> tier, first |-> t, n |-> 1 ]
       ELSE IF r.tier = tier /\ t <= r.first + cfg.windowMs
       THEN [ r EXCEPT !.n = IF @ > cfg.maxRequests + 1 THEN @ ELSE @ + 1 ]
       ELSE NoRun

\* Ghost: an entry created by the call starts the counts again; an allowed
\* call adds one to the count of its tier.
NextTierAllowed(a, pre, tier, t, result) ==
    LET blocked    == pre.blockedUntil # 0 /\ t < pre.blockedUntil
        freshStart == ~pre.had \/ (~blocked /\ t > pre.resetTime)
    IN IF freshStart THEN [ NoneAllowed EXCEPT ![tier] = 1 ]
       ELSE IF result.allowed THEN [ a EXCEPT ![tier] = @ + 1 ]
       ELSE a

CheckRateLimitCall(request) ==
    LET out      == checkRateLimit(rateLimitMap, request, now)
        clientId == getClientIdentifier(request)
        tier     == getRateLimitTier(request.path)
        pre      == EntryView(rateLimitMap, clientId)
    IN /\ rateLimitMap' = out.map
       /\ rlResult' = out.result
       /\ rlCall' = [ kind |-> "check", clientId |-> clientId, path |-> request.path,
                      tier |-> tier, at |-> now, pre |-> pre ]
       /\ run' = IF config.enableRateLimiting
                 THEN NextRun(run, pre, tier, now) ELSE run
       /\ tierAllowed' = IF config.enableRateLimiting
                         THEN NextTierAllowed(tierAllowed, pre, tier, now, out.result)
                         ELSE tierAllowed
       /\ UNCHANGED << env, config, now, mwVars, cacheVars, getVars >>

InitRL ==
    /\ \E v \in { "", "false" } :
          env = EnvWith([ ENABLE_RATE_LIMITING |-> v ])
    /\ InitState

\* In one behaviour the client keeps to one path.
SamePath(request) ==
    IF rlCall.kind = "none" THEN TRUE ELSE request.path = rlCall.path

NextRL ==
    \/ \E request \in RLRequests : SamePath(request) /\ CheckRateLimitCall(request)
    \/ TickRL

SpecRL == InitRL /\ [][NextRL]_vars

\* Bound: the clock of a client that moves between tiers runs over
\* MaxTierMinutes minutes.
MaxTierMinutes == 1

TierInstants == { m * (60 * 1000) + o : m \in 0..MaxTierMinutes, o \in {0, 1} }

TickTiers ==
    /\ \E t \in TierInstants : t > now /\ now' = t
    /\ UNCHANGED << env, config, rlVars, mwVars, cacheVars, getVars >>

\* One client, free to change path from one request to the next.
TierRequests ==
    { [ headers |-> [ cfConnectingIp |-> "", realIp |-> "203.0.113.7",
                      forwardedFor |-> "", userAgent |-> "Mozilla" ],
        path |-> p ] : p \in { "/", "/search" } }

InitTiers ==
    /\ env = EnvWith([ ENABLE_RATE_LIMITING |-> "true" ])
    /\ InitState

NextTiers ==
    \/ \E request \in TierRequests : CheckRateLimitCall(request)
    \/ TickTiers

SpecTiers == InitTiers /\ [][NextTiers]_vars

-----------------------------------------------------------------------------
(* Properties of checkRateLimit, under SpecRL *)

RLEnabledCall == rlCall.kind = "check" /\ config.enableRateLimiting

\* The last call found a block in force: blockedUntil set and at < blockedUntil.
CallFoundBlocked ==
    /\ RLEnabledCall
    /\ rlCall.pre.blockedUntil # 0
    /\ rlCall.at < rlCall.pre.blockedUntil

\* The last call found a block that is over: blockedUntil set and at >= blockedUntil.
CallFoundExpiredBlock ==
    /\ RLEnabledCall
    /\ rlCall.pre.blockedUntil # 0
    /\ rlCall.at >= rlCall.pre.blockedUntil

\* The entry is the one a Fresh client gets from the last call.
EntryIsFresh ==
    /\ rlCall.clientId \in DOMAIN rateLimitMap
    /\ rateLimitMap[rlCall.clientId] =
          [ count |-> 1,
            resetTime |-> rlCall.at + RATE_LIMIT_CONFIG[rlCall.tier].windowMs,
            lastRequest |-> rlCall.at ]

\* C1: with rate limiting on, when all requests of a client since it started a
\* window are of one tier and fall in that window, requests 1..maxRequests are
\* allowed, and request maxRequests + 1 is denied with
\* retryAfter = blockDuration / 1000 and sets blockedUntil = now + blockDuration.
C1_MaxRequestsThenBlock ==
    (RLEnabledCall /\ run.tier # "none") =>
        LET cfg == RATE_LIMIT_CONFIG[run.tier]
        IN /\ run.n <= cfg.maxRequests => rlResult = [ allowed |-> TRUE ]
           /\ run.n = cfg.maxRequests + 1 =>
                /\ cfg.blockDuration % 1000 = 0
                /\ rlResult = [ allowed |-> FALSE,
                                retryAfter |-> cfg.blockDuration \div 1000 ]
                /\ HasBlockedUntil(rateLimitMap[rlCall.clientId])
                /\ rateLimitMap[rlCall.clientId].blockedUntil =
                      rlCall.at + cfg.blockDuration

\* C1 witness: the 51st api-tier request of one window has been denied.
C1_Witness ==
    /\ RLEnabledCall
    /\ run.tier = "api"
    /\ run.n = RATE_LIMIT_CONFIG.api.maxRequests + 1
    /\ rlResult.allowed = FALSE
    /\ rlCall.pre.count = RATE_LIMIT_CONFIG.api.maxRequests

\* C2: in every tier, the first check at or after blockedUntil is treated as
\* Fresh: allowed, entry reset to count = 1 with a new window.
C2_ExpiredBlockIsFresh ==
    CallFoundExpiredBlock => (rlResult = [ allowed |-> TRUE ] /\ EntryIsFresh)

\* C3: a check made while the block is in force is denied with
\* blockRemaining = ceil((blockedUntil - now) / 1000), leaves the entry as it
\* was (blockedUntil is not extended), and over successive such checks the
\* blockRemaining returned never increases.
C3_BlockedDeniesNonIncreasing ==
    [][ (rlCall' # rlCall /\ CallFoundBlocked') =>
          /\ rlResult' =
                [ allowed |-> FALSE,
                  blockRemaining |->
                      CeilDiv(rlCall'.pre.blockedUntil - rlCall'.at, 1000) ]
          /\ rateLimitMap' = rateLimitMap
          /\ CallFoundBlocked => rlResult'.blockRemaining <= rlResult.blockRemaining
      ]_vars

\* C3 witness: a blocked client has been denied at a time that is not a whole
\* number of seconds before blockedUntil and is later than the start of the block.
C3_Witness ==
    /\ CallFoundBlocked
    /\ (rlCall.pre.blockedUntil - rlCall.at) % 1000 # 0
    /\ "blockRemaining" \in DOMAIN rlResult
    /\ rlResult.blockRemaining * 1000 > rlCall.pre.blockedUntil - rlCall.at
    /\ rlCall.at > rlCall.pre.blockedUntil
                     - RATE_LIMIT_CONFIG[rlCall.tier].blockDuration + 1

\* C4: a check that finds an entry, no block in force and now > resetTime is
\* allowed and replaces the entry by count = 1, resetTime = now + windowMs,
\* lastRequest = now, without blockedUntil, however high count was.
C4_ExpiredWindowRollsOver ==
    ( /\ RLEnabledCall
      /\ rlCall.pre.had
      /\ ~CallFoundBlocked
      /\ rlCall.at > rlCall.pre.resetTime )
    => (rlResult = [ allowed |-> TRUE ] /\ EntryIsFresh)

\* C4 witness: the window of a client that had used its whole quota has rolled over.
C4_Witness ==
    /\ RLEnabledCall
    /\ rlCall.pre.had
    /\ rlCall.pre.blockedUntil = 0
    /\ rlCall.pre.count = RATE_LIMIT_CONFIG[rlCall.tier].maxRequests
    /\ rlCall.at > rlCall.pre.resetTime
    /\ EntryIsFresh

-----------------------------------------------------------------------------
(* Requests arriving at the edge: the matcher decides whether the middleware *)
(* runs before the route.                                                    *)

\* Bound: the edge clock runs over MaxMwMinutes minutes.
MaxMwMinutes == 1

MwInstants == { m * (60 * 1000) + o : m \in 0..MaxMwMinutes, o \in {0, 1} }

TickMw ==
    /\ \E t \in MwInstants : t > now /\ now' = t
    /\ UNCHANGED << env, config, rlVars, mwVars, cacheVars, getVars >>

Req(host, xForwardedHost, origin, method, path) ==
    [ headers |-> [ cfConnectingIp |-> "", realIp |-> "203.0.113.7",
                    forwardedFor |-> "", userAgent |-> "Mozilla",
                    host |-> host, origin |-> origin,
                    xForwardedHost |-> xForwardedHost,
                    xOriginalUrl |-> "", xRewriteUrl |-> "" ],
      method |-> method,
      path |-> path ]

MwRequests ==
    { Req("localhost", "", o, m, "/") :
         o \in { "", "http://localhost:3000", "http://evil.example" },
         m \in { "GET", "OPTIONS" } }
    \cup { Req("localhost", "", "", "GET", p) :
              p \in { "/api/weather", "/_next/static/app.js" } }
    \cup { Req(h, "", "", "GET", "/") : h \in { "evil.example", "" } }
    \cup { Req("localhost", "evil.example", "", "GET", "/") }

BrokenRun == [ tier |-> "broken", first |-> 0, n |-> 0 ]

\* Ghost: the requests of a client that has so far sent only GET /api/weather
\* with a trusted host and no suspicious header, all within one api window.
NextApiRun(r, request, t) ==
    IF /\ r.tier # "broken"
       /\ request.path = "/api/weather"
       /\ validateTrustedHost(request)
       /\ validateRequestHeaders(request)
       /\ r.tier = "api" => t <= r.first + RATE_LIMIT_CONFIG.api.windowMs
    THEN IF r.tier = "none" THEN [ tier |-> "api", first |-> t, n |-> 1 ]
         ELSE [ r EXCEPT !.n = IF @ > RATE_LIMIT_CONFIG.api.maxRequests + 1
                               THEN @ ELSE @ + 1 ]
    ELSE BrokenRun

EdgeRequest(request) ==
    LET matched  == MatcherMatches(request.path)
        out      == middleware(rateLimitMap, request, now)
        clientId == getClientIdentifier(request)
        tier     == getRateLimitTier(request.path)
        pre      == EntryView(rateLimitMap, clientId)
        checked  == matched /\ out.checked
    IN /\ mwResponse' = IF matched THEN out.response ELSE [ kind |-> "unmatched" ]
       /\ rateLimitMap' = IF matched THEN out.map ELSE rateLimitMap
       /\ rlResult' = IF checked THEN checkRateLimit(rateLimitMap, request, now).result
                      ELSE rlResult
       /\ rlCall' = IF checked
                    THEN [ kind |-> "check", clientId |-> clientId,
                           path |-> request.path, tier |-> tier, at |-> now,
                           pre |-> pre ]
                    ELSE rlCall
       /\ run' = IF checked THEN NextRun(run, pre, tier, now) ELSE run
       /\ tierAllowed' = IF checked
                         THEN NextTierAllowed(tierAllowed, pre, tier, now,
                                 checkRateLimit(rateLimitMap, request, now).result)
                         ELSE tierAllowed
       /\ apiRun' = NextApiRun(apiRun, request, now)
       /\ mwCall' = [ kind |-> "edge", request |-> request, matched |-> matched,
                      cors |-> IF matched /\ out.response.kind = "next"
                               THEN handleCors(request,
                                               addSecurityHeaders(EmptyHeaders)).returned
                               ELSE NoCall ]
       /\ UNCHANGED << env, config, now, cacheVars, getVars >>

InitMw ==
    /\ \E v \in { "", "production" } : env = EnvWith([ NODE_ENV |-> v ])
    /\ InitState

NextMw ==
    \/ \E request \in MwRequests : EdgeRequest(request)
    \/ TickMw

SpecMw == InitMw /\ [][NextMw]_vars

\* A string of decimal digits
IsNumeric(s) == Len(s) > 0 /\ \A i \in 1..Len(s) : IsDigit(CharAt(s, i))

\* C5: requests to /api/weather are gated under the api tier: the 51st request
\* of a client to /api/weather within one api window is answered 429 with a
\* numeric Retry-After header.
C5_ApiWeatherRateLimited ==
    ( /\ config.enableRateLimiting
      /\ apiRun.tier = "api"
      /\ apiRun.n = RATE_LIMIT_CONFIG.api.maxRequests + 1 )
    => /\ mwResponse.kind = "response"
       /\ mwResponse.status = 429
       /\ "Retry-After" \in DOMAIN mwResponse.headers
       /\ IsNumeric(mwResponse.headers["Retry-After"])

-----------------------------------------------------------------------------
(* getCachedData and setCachedData called directly *)

\* Bound: the cache clock runs over MaxCacheSeconds seconds.
MaxCacheSeconds == 1

CacheInstants == { sec * 1000 + o : sec \in 0..MaxCacheSeconds, o \in {0, 1} }

TickCache ==
    /\ \E t \in CacheInstants : t > now /\ now' = t
    /\ UNCHANGED << env, config, rlVars, mwVars, cacheVars, getVars >>

Cities == { "Cape Town", "Durban", "Paarl" }

\* line 216
CacheKeyOf(city) == "weather:" \o ToLowerCase(city)

CacheKeys == { CacheKeyOf(city) : city \in Cities }

\* Two payloads the provider may return for any city.
Snapshots == { [ name |-> "A", temp |-> 18 ], [ name |-> "B", temp |-> 25 ] }

\* ghost: what a getCachedData call found and returned
GetOp(cacheKey, value) ==
    [ kind |-> "get", key |-> cacheKey, at |-> now,
      had |-> CacheHas(cache, cacheKey),
      storedAt |-> IF CacheHas(cache, cacheKey)
                   THEN CacheGet(cache, cacheKey).timestamp ELSE 0,
      sizeBefore |-> Len(cache),
      followsPut |-> cacheOp.kind = "put" /\ cacheOp.key = cacheKey,
      putEvicted |-> IF cacheOp.kind = "put" THEN cacheOp.evicted ELSE 0,
      value |-> value ]

\* ghost: what a setCachedData call was given and how many entries it evicted
PutOp(cacheKey, data) ==
    [ kind |-> "put", key |-> cacheKey, at |-> now, data |-> data,
      evicted |-> IF config.enableCache
                  THEN Len(cache) - Len(Evict(cache)) ELSE 0 ]

GetCall(cacheKey) ==
    LET out == getCachedData(cache, cacheKey, now)
    IN /\ cache' = out.cache
       /\ cacheOp' = GetOp(cacheKey, out.value)
       /\ UNCHANGED << env, config, now, rlVars, mwVars, getVars >>

PutCall(cacheKey, data) ==
    /\ cache' = setCachedData(cache, cacheKey, data, now)
    /\ cacheOp' = PutOp(cacheKey, data)
    /\ UNCHANGED << env, config, now, rlVars, mwVars, getVars >>

CacheEnvs ==
    { EnvWith([ CACHE_TTL_SECONDS |-> "1", CACHE_MAX_SIZE |-> size ]) :
         size \in { "0", "1", "2" } }
    \cup { EnvWith([ CACHE_TTL_SECONDS |-> "1", CACHE_MAX_SIZE |-> "2",
                     ENABLE_CACHE |-> "false" ]) }

InitCache ==
    /\ env \in CacheEnvs
    /\ InitState

NextCache ==
    \/ \E cacheKey \in CacheKeys : GetCall(cacheKey)
    \/ \E cacheKey \in CacheKeys, data \in Snapshots : PutCall(cacheKey, data)
    \/ TickCache

SpecCache == InitCache /\ [][NextCache]_vars

\* Bound: the largest cacheMaxSize of the full caches a single put is applied to.
MaxEvictSize == 11

EvictSizes == { 1, 2, MaxEvictSize }

\* line 216, for the cities city1, city2, ...
EvictKey(i) == "weather:city" \o NumberToString(i)

\* A cache holding exactly size entries, each stored at instant 0 or 1.  A key
\* that is put again keeps its place in the Map, so every order of storage
\* times can arise.
FullCaches(size) ==
    { [ i \in 1..size |-> [ key |-> EvictKey(i), data |-> [ name |-> "A", temp |-> 18 ],
                            timestamp |-> ts[i] ] ] : ts \in [ 1..size -> { 0, 1 } ] }

\* setCachedData applied once, at instant 1000, to a full cache
InitEvict ==
    /\ \E size \in EvictSizes :
          /\ env = EnvWith([ CACHE_TTL_SECONDS |-> "1",
                             CACHE_MAX_SIZE |-> NumberToString(size) ])
          /\ cache \in FullCaches(size)
    /\ config = getConfig
    /\ now = 1000
    /\ rateLimitMap = EmptyMap
    /\ rlResult = NoCall
    /\ rlCall = NoCall
    /\ run = NoRun
    /\ tierAllowed = NoneAllowed
    /\ mwResponse = NoCall
    /\ apiRun = NoRun
    /\ mwCall = NoCall
    /\ cacheOp = NoCall
    /\ lastPut = NoPuts(FALSE)
    /\ handlers = [ h \in Handlers |-> Idle ]

NextEvict ==
    /\ cacheOp.kind = "none"
    /\ \E i \in 1..(Len(cache) + 1), data \in Snapshots : PutCall(EvictKey(i), data)

SpecEvict == InitEvict /\ [][NextEvict]_vars

-----------------------------------------------------------------------------
(* Properties of the cache, under SpecCache *)

\* The step is a getCachedData call.
IsGetStep == cacheOp'.kind = "get" /\ (cacheOp' # cacheOp \/ cache' # cache)

\* C6: in every reachable state the number of cache entries is at most the
\* configured cacheMaxSize, whatever value is configured.
C6_SizeWithinMax == Len(cache) <= config.cacheMaxSize

\* C7: with the cache enabled, get(k) of a present entry returns absent and
\* deletes the entry (size decreases by one) when now - storedAt > ttlSeconds * 1000,
\* and otherwise returns the stored snapshot and leaves the cache unchanged.
C7_GetExpiresExactlyAfterTtl ==
    [][ (IsGetStep /\ config.enableCache /\ CacheHas(cache, cacheOp'.key)) =>
          LET cached == CacheGet(cache, cacheOp'.key)
          IN IF now - cached.timestamp > config.cacheTtlSeconds * 1000
             THEN /\ cacheOp'.value = Null
                  /\ ~CacheHas(cache', cacheOp'.key)
                  /\ Len(cache') = Len(cache) - 1
                  /\ \A i \in 1..Len(cache) :
                        cache[i].key # cacheOp'.key =>
                           \E j \in 1..Len(cache') : cache'[j] = cache[i]
             ELSE /\ cacheOp'.value = cached.data
                  /\ cache' = cache
      ]_vars

\* C7 witness: a get has found an entry older than the TTL and removed it.
C7_Witness ==
    /\ cacheOp.kind = "get"
    /\ config.enableCache
    /\ cacheOp.had
    /\ cacheOp.at - cacheOp.storedAt > config.cacheTtlSeconds * 1000
    /\ cacheOp.value = Null
    /\ cacheOp.sizeBefore = 2
    /\ Len(cache) = 1

\* C8: with the cache enabled, put(k, v) followed by get(k) before the TTL
\* elapses returns v, whatever the cache held before the put.
C8_PutThenGetReturnsValue ==
    [][ ( /\ IsGetStep
          /\ config.enableCache
          /\ cacheOp.kind = "put"
          /\ cacheOp'.key = cacheOp.key
          /\ now - cacheOp.at <= config.cacheTtlSeconds * 1000 )
        => cacheOp'.value = cacheOp.data
      ]_vars

\* C8 witness: a get has returned the snapshot of a put that found the cache
\* full and evicted, some time after the put.
C8_Witness ==
    /\ cacheOp.kind = "get"
    /\ config.enableCache
    /\ cacheOp.followsPut
    /\ cacheOp.putEvicted > 0
    /\ cacheOp.at > cacheOp.storedAt
    /\ cacheOp.value \in Snapshots

-----------------------------------------------------------------------------
(* lib/errors *)

ApiError(message, statusCode, code) ==
    [ isApiError |-> TRUE, name |-> "Error", message |-> message,
      statusCode |-> statusCode, isOperational |-> TRUE, code |-> code ]

ValidationError(message) ==
    [ ApiError(message, 400, "VALIDATION_ERROR") EXCEPT !.name = "ValidationError" ]

NotFoundError(message) ==
    [ ApiError(message, 404, "NOT_FOUND") EXCEPT !.name = "NotFoundError" ]

UnauthorizedError(message) ==
    [ ApiError(message, 401, "UNAUTHORIZED") EXCEPT !.name = "UnauthorizedError" ]

RateLimitError(message) ==
    [ ApiError(message, 429, "RATE_LIMIT_EXCEEDED") EXCEPT !.name = "RateLimitError" ]

\* externalStatusCode 0 stands for undefined
ExternalApiError(message, externalService, externalStatusCode) ==
    [ isApiError |-> TRUE, name |-> "ExternalApiError", message |-> message,
      statusCode |-> 502, isOperational |-> TRUE, code |-> "EXTERNAL_API_ERROR",
      externalService |-> externalService,
      externalStatusCode |-> externalStatusCode ]

\* An Error that is not an ApiError: what fetch and response.json() throw.
PlainError(name, message) ==
    [ isApiError |-> FALSE, name |-> name, message |-> message ]

handleError(error) ==
    IF error.isApiError THEN error
    ELSE IF Includes(error.message, "fetch") \/ Includes(error.message, "network")
    THEN ExternalApiError("Network error occurred while fetching weather data",
                          "OpenWeather API", 0)
    ELSE IF Includes(error.message, "timeout") \/ Includes(error.message, "abort")
    THEN ExternalApiError("Request timeout while fetching weather data",
                          "OpenWeather API", 0)
    ELSE ApiError(error.message, 500, "INTERNAL_ERROR")

\* hasStack: the stack is included, read from process.env directly
createErrorResponse(error) ==
    [ error |-> [ message |-> error.message,
                  code |-> error.code,
                  statusCode |-> error.statusCode,
                  hasStack |-> env["NODE_ENV"] = "development" ] ]

-----------------------------------------------------------------------------
(* route.ts: validation, the upstream call, the GET handler *)

\* a character the pattern [^a-zA-Z\s\-'] does not remove
IsCityChar(c) ==
    \/ \E i \in 1..26 : c = UpperLetters[i] \/ c = LowerLetters[i]
    \/ IsSpaceChar(c)
    \/ c = "-"
    \/ c = "'"

\* city.replace(/[^a-zA-Z\s\-']/g, '')
RECURSIVE SanitizeCity(_)
SanitizeCity(city) ==
    IF city = "" THEN ""
    ELSE (IF IsCityChar(CharAt(city, 1)) THEN CharAt(city, 1) ELSE "")
         \o SanitizeCity(SubSeq(city, 2, Len(city)))

Returned == [ threw |-> FALSE ]
Threw(error) == [ threw |-> TRUE, error |-> error ]

validateCity(city) ==
    IF city = ""
    THEN Threw(ValidationError("City parameter is required and must be a string"))
    ELSE IF Len(Trim(city)) = 0
    THEN Threw(ValidationError("City parameter cannot be empty"))
    ELSE IF Len(city) > 100
    THEN Threw(ValidationError("City name is too long (max 100 characters)"))
    ELSE IF SanitizeCity(city) # city
    THEN Threw(ValidationError("City name contains invalid characters"))
    ELSE Returned

\* setTimeout(() => controller.abort(), 10000)
FetchTimeoutMs == 10000

\* response.ok
ResponseOk(status) == status >= 200 /\ status <= 299

StatusErrorRateLimited(city, status) ==
    IF status = 404 THEN NotFoundError("City \"" \o city \o "\" not found")
    ELSE IF status = 429 THEN RateLimitError("OpenWeather API rate limit exceeded")
    ELSE ExternalApiError("OpenWeather API returned status "
                             \o NumberToString(status),
                          "OpenWeather API", status)

StatusErrorUnauthorized(city, status) ==
    IF status = 404 THEN NotFoundError("City \"" \o city \o "\" not found")
    ELSE IF status = 401 THEN UnauthorizedError("Invalid API key for OpenWeather service")
    ELSE ExternalApiError("OpenWeather API returned status "
                             \o NumberToString(status),
                          "OpenWeather API", status)

\* what fetchWeatherData throws for a response that is not ok
StatusError(city, status) ==
    IF status = 404 THEN NotFoundError("City \"" \o city \o "\" not found")
    ELSE IF status = 401
    THEN ExternalApiError("Invalid API key for OpenWeather service",
                          "OpenWeather API", status)
    ELSE IF status = 429
    THEN ExternalApiError("OpenWeather API rate limit exceeded",
                          "OpenWeather API", status)
    ELSE ExternalApiError("OpenWeather API returned status "
                             \o NumberToString(status),
                          "OpenWeather API", status)

\* A response body is text that is not JSON, or a JSON value.
MalformedBody == [ kind |-> "malformed" ]
JsonObject(data) == [ kind |-> "json", type |-> "object", object |-> data ]
JsonNumber(n) == [ kind |-> "json", type |-> "number", number |-> n ]
JsonNull == [ kind |-> "json", type |-> "null" ]

\* !data || typeof data !== 'object'
IsFalsy(data) ==
    IF data.type = "number" THEN data.number = 0 ELSE data.type = "null"
TypeOf(data) == IF data.type = "null" THEN "object" ELSE data.type

\* lines 163-173: the outcome of reading the body of an ok response
ReadBody(body) ==
    IF body.kind = "malformed"
    THEN Threw(PlainError("SyntaxError", "Unexpected token < in JSON at position 0"))
    ELSE IF IsFalsy(body) \/ TypeOf(body) # "object"
    THEN Threw(ExternalApiError("Invalid response format from OpenWeather API",
                                "OpenWeather API", 0))
    ELSE [ threw |-> FALSE, data |-> body.object ]

\* lines 174-185: the catch block of fetchWeatherData
FetchCatch(error) ==
    IF ~error.isApiError /\ error.name = "AbortError"
    THEN ExternalApiError("Request timeout while fetching weather data",
                          "OpenWeather API", 0)
    ELSE error

\* NextResponse.json(body, { status, headers })
JsonResponse(body, status, headers) ==
    [ status |-> status, headers |-> headers @@ JsonContentType, body |-> body ]

CatchResponseNoCacheControl(error) ==
    JsonResponse(createErrorResponse(handleError(error)),
                 handleError(error).statusCode, EmptyHeaders)

\* lines 242-260: the catch block of GET
CatchResponse(error) ==
    JsonResponse(createErrorResponse(handleError(error)),
                 handleError(error).statusCode,
                 "Cache-Control" :> "no-cache, no-store, must-revalidate")

DataResponse(data, xCache) ==
    JsonResponse(data, 200,
                 ("X-Cache" :> xCache)
                 @@ ("Cache-Control" :> ("public, max-age="
                                         \o NumberToString(config.cacheTtlSeconds))))

\* lines 245-250: the context GET passes to logError
LogContext == { "url", "method", "userAgent", "ip" }

DoneNoLog(h, response, failure, caught, thrown, upstream) ==
    [ pc |-> "done",
      fetches |-> IF handlers[h].pc \in { "fetching", "reading" }
                  THEN handlers[h].fetches ELSE 0,
      failure |-> failure,
      thrown |-> thrown,
      upstream |-> upstream,
      logCalls |-> << >>,
      logged |-> FALSE,
      response |-> response ]

\* A finished invocation.  Ghost fields: thrown is the name of the error
\* validateCity or fetchWeatherData raised ("none" if neither did), upstream the
\* status the upstream answered with (0 if it gave none), logCalls the
\* logError calls made (each with the keys of its context), and logged whether
\* logError wrote the error to the console.
Done(h, response, failure, caught, thrown, upstream) ==
    [ pc |-> "done",
      fetches |-> IF handlers[h].pc \in { "fetching", "reading" }
                  THEN handlers[h].fetches ELSE 0,
      failure |-> failure,
      thrown |-> thrown,
      upstream |-> upstream,
      logCalls |-> IF caught THEN << [ error |-> thrown, context |-> LogContext ] >>
                   ELSE << >>,
      logged |-> caught /\ config.enableRequestLogging,
      response |-> response ]

\* GET up to its first await: method check, validation, cache lookup, and
\* either a response or the upstream fetch being issued.
GetStart(h, request) ==
    /\ handlers[h].pc \in { "idle", "done", "threw" }
    /\ IF getConfigThrows
       THEN \* line 189: getConfig() is called before the try block
            /\ handlers' = [ handlers EXCEPT ![h] =
                  [ pc |-> "threw",
                    error |-> getRequiredEnvVar("OPENWEATHER_API_KEY").error ] ]
            /\ UNCHANGED cacheVars
       ELSE IF request.method # "GET"
       THEN /\ handlers' = [ handlers EXCEPT ![h] =
                  Done(h, JsonResponse(
                             createErrorResponse(ValidationError("Method not allowed")),
                             405, EmptyHeaders),
                       "method", FALSE, "none", 0) ]
            /\ UNCHANGED cacheVars
       ELSE IF validateCity(request.city).threw
       THEN /\ handlers' = [ handlers EXCEPT ![h] =
                  Done(h, JsonResponse(
                             createErrorResponse(validateCity(request.city).error),
                             validateCity(request.city).error.statusCode,
                             EmptyHeaders),
                       "validation", FALSE,
                       validateCity(request.city).error.name, 0) ]
            /\ UNCHANGED cacheVars
       ELSE LET cacheKey == CacheKeyOf(request.city)
                out == getCachedData(cache, cacheKey, now)
            IN /\ cache' = out.cache
               /\ cacheOp' = GetOp(cacheKey, out.value)
               /\ handlers' = [ handlers EXCEPT ![h] =
                     IF out.value # Null
                     THEN Done(h, DataResponse(out.value, "HIT"), "none", FALSE, "none", 0)
                     ELSE [ pc |-> "fetching", city |-> request.city,
                            issuedAt |-> now, fetches |-> 1 ] ]
    /\ UNCHANGED << env, config, now, rlVars, mwVars, lastPut >>

\* The upstream answers with a status line before the abort timer fires.
UpstreamResponds(h, status) ==
    /\ handlers[h].pc = "fetching"
    /\ now - handlers[h].issuedAt < FetchTimeoutMs
    /\ handlers' = [ handlers EXCEPT ![h] =
          IF ResponseOk(status)
          THEN [ pc |-> "reading", city |-> handlers[h].city,
                 issuedAt |-> handlers[h].issuedAt,
                 fetches |-> handlers[h].fetches, upstream |-> status ]
          ELSE Done(h, CatchResponse(FetchCatch(StatusError(handlers[h].city, status))),
                    IF status = 404 THEN "notFound" ELSE "external", TRUE,
                    FetchCatch(StatusError(handlers[h].city, status)).name, status) ]
    /\ UNCHANGED << env, config, now, rlVars, mwVars, cacheVars, lastPut >>

\* fetch rejects: the connection to the upstream failed.
FetchRejects(h) ==
    /\ handlers[h].pc = "fetching"
    /\ now - handlers[h].issuedAt < FetchTimeoutMs
    /\ handlers' = [ handlers EXCEPT ![h] =
          Done(h, CatchResponse(FetchCatch(PlainError("TypeError", "fetch failed"))),
               "external", TRUE,
               FetchCatch(PlainError("TypeError", "fetch failed")).name, 0) ]
    /\ UNCHANGED << env, config, now, rlVars, mwVars, cacheVars, lastPut >>

\* The abort timer fires while fetch is pending.
AbortFires(h) ==
    /\ handlers[h].pc = "fetching"
    /\ now - handlers[h].issuedAt >= FetchTimeoutMs
    /\ handlers' = [ handlers EXCEPT ![h] =
          Done(h, CatchResponse(FetchCatch(
                     PlainError("AbortError", "This operation was aborted"))),
               "external", TRUE,
               FetchCatch(PlainError("AbortError", "This operation was aborted")).name,
               0) ]
    /\ UNCHANGED << env, config, now, rlVars, mwVars, cacheVars, lastPut >>

\* response.json() settles; on success the data is cached and returned.
BodyArrives(h, body) ==
    /\ handlers[h].pc = "reading"
    /\ LET read == ReadBody(body)
           cacheKey == CacheKeyOf(handlers[h].city)
       IN IF read.threw
          THEN /\ handlers' = [ handlers EXCEPT ![h] =
                     Done(h, CatchResponse(FetchCatch(read.error)), "external", TRUE,
                          FetchCatch(read.error).name, handlers[h].upstream) ]
               /\ UNCHANGED << cacheVars, lastPut >>
          ELSE /\ cache' = setCachedData(cache, cacheKey, read.data, now)
               /\ cacheOp' = PutOp(cacheKey, read.data)
               /\ lastPut' = IF lastPut.tracked /\ config.enableCache
                             THEN [ lastPut EXCEPT !.puts =
                                      MapSet(@, cacheKey,
                                             [ data |-> read.data, at |-> now ]) ]
                             ELSE lastPut
               /\ handlers' = [ handlers EXCEPT ![h] =
                     Done(h, DataResponse(read.data, "MISS"), "none", FALSE, "none",
                          handlers[h].upstream) ]
    /\ UNCHANGED << env, config, now, rlVars, mwVars >>

\* Bound: the handler clock runs over MaxGetSeconds seconds, and on to the
\* instant at which a fetch issued in the first second is aborted.
MaxGetSeconds == 1

GetInstants ==
    { sec * 1000 + o : sec \in 0..MaxGetSeconds, o \in {0, 1} }
    \cup { FetchTimeoutMs + o : o \in {0, 1} }

\* The abort timer armed at line 121 is pending while fetch is pending.
TimerPending(h) == handlers[h].pc = "fetching"

\* Time passes; a pending timer fires when it is due, so the clock does not
\* pass the instant a pending abort timer is set for.
TickGet ==
    /\ \E t \in GetInstants :
          /\ t > now
          /\ \A h \in Handlers :
                TimerPending(h) => t <= handlers[h].issuedAt + FetchTimeoutMs
          /\ now' = t
    /\ UNCHANGED << env, config, rlVars, mwVars, cacheVars, getVars >>

\* a name of 101 letters
LongCity ==
    "aaaaaaaaaaaaaaaaaaaaaaaaaaaaaaaaaaaaaaaaaaaaaaaaaaaaaaaaaaaaaaaaaaaaaaaaaaaaaaaaaaaaaaaaaaaaaaaaaaaaa"

\* The city parameter of a request; "" is a missing or empty parameter.
GetCities ==
    { "Cape Town", "cape town", "Cape\tTown",
      "", "  ", "Durban2", "London<script>", "St. Ives", LongCity }

GetRequests == [ method : { "GET", "POST" }, city : GetCities ]

UpstreamStatuses == { 200, 401, 404, 429, 500 }

UpstreamBodies ==
    { JsonObject(data) : data \in Snapshots }
    \cup { JsonNull, JsonNumber(7), MalformedBody }

GetEnvs ==
    { EnvWith([ CACHE_TTL_SECONDS |-> "1", CACHE_MAX_SIZE |-> "1" ]),
      EnvWith([ CACHE_TTL_SECONDS |-> "1", CACHE_MAX_SIZE |-> "1",
                ENABLE_CACHE |-> "false", NODE_ENV |-> "development" ]),
      EnvWith([ OPENWEATHER_API_KEY |-> "", CACHE_TTL_SECONDS |-> "1",
                CACHE_MAX_SIZE |-> "1" ]) }

InitGet ==
    /\ env \in GetEnvs
    /\ InitState

NextGet ==
    \/ \E h \in Handlers, request \in GetRequests : GetStart(h, request)
    \/ \E h \in Handlers, status \in UpstreamStatuses : UpstreamResponds(h, status)
    \/ \E h \in Handlers : FetchRejects(h)
    \/ \E h \in Handlers : AbortFires(h)
    \/ \E h \in Handlers, body \in UpstreamBodies : BodyArrives(h, body)
    \/ TickGet

SpecGet == InitGet /\ [][NextGet]_vars

\* The handler with the cache on, the snapshots it stores being recorded, for
\* GET requests for two cities (one in two spellings) and a missing city.
HitRequests ==
    [ method : { "GET" }, city : { "Cape Town", "cape town", "Cape\tTown", "" } ]

\* The upstream answers with the data or reports the city unknown.
HitStatuses == { 200, 404 }

InitHit ==
    /\ env = EnvWith([ CACHE_TTL_SECONDS |-> "1", CACHE_MAX_SIZE |-> "1" ])
    /\ config = getConfig
    /\ now = 0
    /\ rateLimitMap = EmptyMap
    /\ rlResult = NoCall
    /\ rlCall = NoCall
    /\ run = NoRun
    /\ tierAllowed = NoneAllowed
    /\ mwResponse = NoCall
    /\ apiRun = NoRun
    /\ mwCall = NoCall
    /\ cache = << >>
    /\ cacheOp = NoCall
    /\ lastPut = NoPuts(TRUE)
    /\ handlers = [ h \in Handlers |-> Idle ]

NextHit ==
    \/ \E h \in Handlers, request \in HitRequests : GetStart(h, request)
    \/ \E h \in Handlers, status \in HitStatuses : UpstreamResponds(h, status)
    \/ \E h \in Handlers : FetchRejects(h)
    \/ \E h \in Handlers : AbortFires(h)
    \/ \E h \in Handlers, body \in UpstreamBodies : BodyArrives(h, body)
    \/ TickGet

SpecHit == InitHit /\ [][NextHit]_vars

-----------------------------------------------------------------------------
(* Properties of the GET handler, under SpecGet *)

\* The step is a cache lookup by GET: only GetStart for a city that passes
\* validation makes one, and it is made by the one handler slot.
IsLookupStep == cacheOp'.kind = "get" /\ cacheOp' # cacheOp

\* The step is GET storing the data it fetched.
IsStoreStep == cacheOp'.kind = "put" /\ cacheOp' # cacheOp

\* C9: with the cache enabled, a GET for a valid city with no cache entry
\* issues exactly one upstream fetch and, when the upstream returns weather
\* data, stores it and responds 200 with X-Cache: MISS; the GET for the same
\* city that follows within the TTL issues no fetch and responds 200 with
\* X-Cache: HIT and the same snapshot.
C9_MissThenHit ==
    [][ config.enableCache =>
        \A h \in Handlers :
          /\ (IsLookupStep /\ ~CacheHas(cache, cacheOp'.key))
             => /\ handlers'[h].pc = "fetching"
                /\ handlers'[h].fetches = 1
          /\ handlers'[h].pc \in { "fetching", "reading" }
             => handlers'[h].fetches = 1
          /\ (handlers[h].pc = "reading" /\ handlers'[h].pc = "done"
                /\ handlers'[h].failure = "none")
             => /\ IsStoreStep
                /\ cacheOp'.key = CacheKeyOf(handlers[h].city)
                /\ handlers'[h].fetches = 1
                /\ handlers'[h].response.status = 200
                /\ handlers'[h].response.headers["X-Cache"] = "MISS"
                /\ handlers'[h].response.body = cacheOp'.data
                /\ CacheHas(cache', cacheOp'.key)
                /\ CacheGet(cache', cacheOp'.key).data = cacheOp'.data
                /\ CacheGet(cache', cacheOp'.key).timestamp = now
          /\ ( /\ IsLookupStep
               /\ cacheOp.kind = "put"
               /\ cacheOp'.key = cacheOp.key
               /\ now - cacheOp.at <= config.cacheTtlSeconds * 1000 )
             => /\ handlers'[h].pc = "done"
                /\ handlers'[h].fetches = 0
                /\ handlers'[h].response.status = 200
                /\ handlers'[h].response.headers["X-Cache"] = "HIT"
                /\ handlers'[h].response.body = cacheOp.data
      ]_vars

\* C9 witness: a GET has been answered from the cache, some time after the
\* GET before it fetched and stored the snapshot for the same city.
C9_Witness ==
    \E h \in Handlers :
       /\ config.enableCache
       /\ handlers[h].pc = "done"
       /\ handlers[h].fetches = 0
       /\ handlers[h].response.status = 200
       /\ "X-Cache" \in DOMAIN handlers[h].response.headers
       /\ handlers[h].response.headers["X-Cache"] = "HIT"
       /\ cacheOp.kind = "get"
       /\ cacheOp.followsPut
       /\ cacheOp.at > cacheOp.storedAt

\* C10: every failed GET is answered with the status of its kind and a
\* structured error body: 405 for a method other than GET, 400 for a
\* validation failure, 404 with code NOT_FOUND for an upstream 404, and 502
\* for every other failure of the upstream call.
C10_FailureStatus ==
    \A h \in Handlers :
       (handlers[h].pc = "done" /\ handlers[h].failure # "none") =>
          LET response == handlers[h].response
              failure == handlers[h].failure
          IN /\ DOMAIN response.body = { "error" }
             /\ { "message", "code", "statusCode" } \subseteq DOMAIN response.body.error
             /\ failure = "method" => response.status = 405
             /\ failure = "validation" => response.status = 400
             /\ failure = "notFound" =>
                   response.status = 404 /\ response.body.error.code = "NOT_FOUND"
             /\ failure = "external" => response.status = 502

\* The handler has answered a request whose upstream call got this status.
AnsweredUpstream(h, status) ==
    handlers[h].pc = "done" /\ handlers[h].upstream = status

C12_Upstream401Is502 ==
    \A h \in Handlers :
       /\ AnsweredUpstream(h, 401) =>
             /\ handlers[h].thrown = "ExternalApiError"
             /\ handlers[h].response.status = 502
             /\ handlers[h].response.body.error.code = "EXTERNAL_API_ERROR"
             /\ handlers[h].response.body.error.statusCode = 502
       /\ handlers[h].pc = "done" => handlers[h].response.status # 401

\* C12 witness: a GET whose upstream call was answered 401 has been answered.
C12_Witness == \E h \in Handlers : AnsweredUpstream(h, 401)

\* The handler is waiting for the upstream: for the status or for the body.
AwaitingUpstream(h) == handlers[h].pc \in { "fetching", "reading" }

\* C13: no upstream call is still awaited more than 10 seconds after it was
\* issued (it has been answered or aborted by then), and an aborted call is
\* answered 502 with the timeout message.
C13_CallBoundedByTimeout ==
    \A h \in Handlers :
       /\ AwaitingUpstream(h) => now - handlers[h].issuedAt <= FetchTimeoutMs
       /\ (handlers[h].pc = "done" /\ handlers[h].upstream = 0
             /\ handlers[h].thrown = "ExternalApiError")
          => /\ handlers[h].response.status = 502
             /\ handlers[h].response.body.error.message
                   = "Request timeout while fetching weather data"

NoCache == "no-cache, no-store, must-revalidate"
PublicMaxAge == "public, max-age=" \o NumberToString(config.cacheTtlSeconds)

HasHeader(response, name) == name \in DOMAIN response.headers

\* C14 as stated: every failure response carries Cache-Control: no-cache,
\* no-store, must-revalidate and every success response carries
\* Cache-Control: public, max-age=<ttlSeconds>.
C14_EveryFailureNoCache ==
    \A h \in Handlers :
       handlers[h].pc = "done" =>
          /\ HasHeader(handlers[h].response, "Cache-Control")
          /\ handlers[h].response.headers["Cache-Control"]
                = IF handlers[h].failure = "none" THEN PublicMaxAge ELSE NoCache

\* C14 amended: a failure response built by the catch block of GET (404, 502,
\* 500) carries Cache-Control: no-cache, no-store, must-revalidate; the 405
\* and the 400 validation responses carry no Cache-Control header; a success
\* response carries Cache-Control: public, max-age=<ttlSeconds>.
C14_CaughtFailureNoCache ==
    \A h \in Handlers :
       handlers[h].pc = "done" =>
          IF handlers[h].failure \in { "method", "validation" }
          THEN /\ ~HasHeader(handlers[h].response, "Cache-Control")
               /\ handlers[h].response.status \in { 400, 405 }
          ELSE /\ HasHeader(handlers[h].response, "Cache-Control")
               /\ handlers[h].response.headers["Cache-Control"]
                     = IF handlers[h].failure = "none" THEN PublicMaxAge ELSE NoCache
               /\ handlers[h].failure = "none" <=> handlers[h].response.status = 200
               /\ handlers[h].response.status \in { 200, 404, 500, 502 }

\* C14 witness: an upstream failure has been answered 502 with the no-cache
\* header.
C14_Witness ==
    \E h \in Handlers :
       /\ handlers[h].pc = "done"
       /\ handlers[h].response.status = 502
       /\ HasHeader(handlers[h].response, "Cache-Control")
       /\ handlers[h].response.headers["Cache-Control"] = NoCache

-----------------------------------------------------------------------------
(* Requests at the edge at one instant: host trust and CORS *)

EdgeHosts == { "localhost", "example.com", "api.example.com", "evilexample.com", "" }

EdgeOrigins == { "", "http://localhost:3000", "http://evil.example", "*" }

\* Requests carrying one of the headers validateRequestHeaders looks for
SuspiciousRequests ==
    { Req("localhost", "evil.example", "", "GET", "/"),
      [ Req("localhost", "", "", "GET", "/") EXCEPT !.headers.xOriginalUrl = "/admin" ],
      [ Req("localhost", "", "", "GET", "/") EXCEPT !.headers.xRewriteUrl = "/admin" ],
      Req("evilexample.com", "evil.example", "", "GET", "/") }

EdgeRequests ==
    { Req(host, "", origin, method, "/") :
         host \in EdgeHosts, origin \in EdgeOrigins, method \in { "GET", "OPTIONS" } }
    \cup SuspiciousRequests

EdgeEnvs ==
    { EnvWith([ NODE_ENV |-> "production" ]),
      EnvWith([ NODE_ENV |-> "production",
                TRUSTED_HOSTS |-> "example.com, localhost",
                ALLOWED_ORIGINS |-> "https://app.example.com,http://localhost:3000",
                ENABLE_RATE_LIMITING |-> "false" ]),
      EnvWith([ NODE_ENV |-> "test", ENABLE_RATE_LIMITING |-> "false" ]),
      EnvWith([ ENABLE_RATE_LIMITING |-> "false" ]) }

InitEdge ==
    /\ env \in EdgeEnvs
    /\ InitState

NextEdge == \E request \in EdgeRequests : EdgeRequest(request)

SpecEdge == InitEdge /\ [][NextEdge]_vars

\* The middleware let the last request through.
PassedGating == mwCall.kind = "edge" /\ mwCall.matched /\ mwResponse.kind = "next"

OriginListed(origin) ==
    origin # "" /\ \E i \in 1..Len(config.allowedOrigins) : config.allowedOrigins[i] = origin

\* C16: the response the middleware returns for a preflight request that
\* passed host, header and rate-limit gating carries Access-Control-Allow-Methods,
\* Access-Control-Allow-Headers and Access-Control-Max-Age, and carries
\* Access-Control-Allow-Origin when the origin is in the allow-list.
C16_PreflightCarriesCors ==
    (PassedGating /\ mwCall.request.method = "OPTIONS") =>
       /\ { "Access-Control-Allow-Methods", "Access-Control-Allow-Headers",
            "Access-Control-Max-Age" } \subseteq DOMAIN mwResponse.headers
       /\ OriginListed(mwCall.request.headers.origin)
             => "Access-Control-Allow-Origin" \in DOMAIN mwResponse.headers

\* C17: in the response handleCors returns for a request, preflight or not,
\* Access-Control-Allow-Origin is set exactly when the Origin header is in the
\* allowed-origins list and then equals that origin, never '*';
\* Access-Control-Allow-Credentials is set whatever the origin.  For a request
\* that is not a preflight the same holds of the response the middleware returns.
C17_AllowOriginOnlyListed ==
    PassedGating =>
       LET origin == mwCall.request.headers.origin
           Holds(headers) ==
              /\ "Access-Control-Allow-Origin" \in DOMAIN headers
                    <=> OriginListed(origin)
              /\ "Access-Control-Allow-Origin" \in DOMAIN headers
                    => /\ headers["Access-Control-Allow-Origin"] = origin
                       /\ headers["Access-Control-Allow-Origin"] # "*"
              /\ "Access-Control-Allow-Credentials" \in DOMAIN headers
              /\ headers["Access-Control-Allow-Credentials"] = "true"
       IN /\ Holds(mwCall.cors.headers)
          /\ mwCall.request.method # "OPTIONS" => Holds(mwResponse.headers)

\* C17 witness: a preflight from an origin that is not listed has passed the
\* gating.
C17_Witness ==
    /\ PassedGating
    /\ mwCall.request.method = "OPTIONS"
    /\ mwCall.request.headers.origin = "http://evil.example"
    /\ "Access-Control-Allow-Credentials" \in DOMAIN mwCall.cors.headers

TrustedAsSpecified(host) ==
    \E i \in 1..Len(config.trustedHosts) :
       LET trusted == config.trustedHosts[i]
       IN \/ host = trusted
          \/ /\ Len(host) > Len(trusted)
             /\ SubSeq(host, Len(host) - Len(trusted), Len(host)) = "." \o trusted

\* C18: a request is rejected with 403 exactly when its host neither equals a
\* trusted host nor ends with '.' followed by one; evilexample.com is rejected
\* when example.com is trusted, api.example.com is not, and a missing or empty
\* Host header is rejected.
C18_TrustedHostDotBoundary ==
    (mwCall.kind = "edge" /\ mwCall.matched) =>
       LET host == mwCall.request.headers.host
           listed == \E i \in 1..Len(config.trustedHosts) :
                        config.trustedHosts[i] = "example.com"
       IN /\ mwResponse.status = 403 <=> ~TrustedAsSpecified(host)
          /\ isTrustedHost(host) <=> TrustedAsSpecified(host)
          /\ host = "" => mwResponse.status = 403
          /\ (listed /\ host = "evilexample.com") => mwResponse.status = 403
          /\ (listed /\ host = "api.example.com") => mwResponse.status # 403

\* C18 witness: evilexample.com has been rejected while example.com is trusted.
C18_Witness ==
    /\ mwCall.kind = "edge"
    /\ mwCall.request.headers.host = "evilexample.com"
    /\ \E i \in 1..Len(config.trustedHosts) : config.trustedHosts[i] = "example.com"
    /\ mwResponse.status = 403

IsLetter(c) == \E i \in 1..26 : c = UpperLetters[i] \/ c = LowerLetters[i]

\* present, non-empty after trimming, at most 100 characters, and made of
\* letters, spaces, hyphens and apostrophes only
WellFormedCity(city) ==
    /\ city # ""
    /\ Trim(city) # ""
    /\ Len(city) <= 100
    /\ \A i \in 1..Len(city) :
          IsLetter(CharAt(city, i)) \/ CharAt(city, i) \in { " ", "-", "'" }

\* C19: GET accepts the city parameter if and only if it is present, non-empty
\* after trimming, at most 100 characters long and composed only of letters,
\* spaces, hyphens and apostrophes; any other city, one containing a digit,
\* '<', '.', a tab or a newline included, is answered 400 with a ValidationError.
\* (Stated for a configured provider key, without which no city is validated.)
C19_CityAcceptedIffWellFormed ==
    [][ \A h \in Handlers, city \in GetCities :
          (config.openWeatherApiKey # ""
             /\ GetStart(h, [ method |-> "GET", city |-> city ])) =>
             IF WellFormedCity(city)
             THEN handlers'[h].pc = "fetching" \/ handlers'[h].failure = "none"
             ELSE /\ handlers'[h].pc = "done"
                  /\ handlers'[h].failure = "validation"
                  /\ handlers'[h].thrown = "ValidationError"
                  /\ handlers'[h].response.status = 400
      ]_vars

\* ---- Tier selection, under SpecRL ----

HasPrefix(path, prefix) ==
    Len(path) >= Len(prefix) /\ SubSeq(path, 1, Len(prefix)) = prefix

Contains(path, word) ==
    \E i \in 1..Len(path) :
       i + Len(word) - 1 <= Len(path) /\ SubSeq(path, i, i + Len(word) - 1) = word

ExpectedTier(path) ==
    IF HasPrefix(path, "/api/weather") THEN "api"
    ELSE IF Contains(path, "search") \/ Contains(path, "suggest") THEN "search"
    ELSE "general"

\* C20: tier selection picks exactly one tier from the request path: api when
\* the path starts with /api/weather (even if it also contains 'search' or
\* 'suggest'), otherwise search when the path contains 'search' or 'suggest',
\* otherwise general; the limits applied to the call are that tier's: a window
\* the call opens lasts that tier's windowMs.
C20_TierFromPath ==
    RLEnabledCall =>
       /\ rlCall.tier \in DOMAIN RATE_LIMIT_CONFIG
       /\ rlCall.tier = ExpectedTier(rlCall.path)
       /\ ~rlCall.pre.had =>
             /\ rlCall.clientId \in DOMAIN rateLimitMap
             /\ rateLimitMap[rlCall.clientId].resetTime =
                   rlCall.at + RATE_LIMIT_CONFIG[ExpectedTier(rlCall.path)].windowMs

C20_Witness ==
    /\ RLEnabledCall
    /\ rlCall.path = "/api/weather/search"
    /\ ~rlCall.pre.had
    /\ rlCall.tier = "api"
    /\ rateLimitMap[rlCall.clientId].resetTime =
          rlCall.at + RATE_LIMIT_CONFIG.api.windowMs

\* ---- Disabled mode, under SpecRL ----

\* C21: when rate limiting is disabled by configuration, every check returns
\* allowed and the rate-limit map stays as it was at start, empty: no entry is
\* created, no count incremented, no block set, whatever requests are made.
C21_DisabledNeverMutates ==
    ~config.enableRateLimiting =>
       /\ rateLimitMap = EmptyMap
       /\ rlCall.kind = "check" => rlResult = [ allowed |-> TRUE ]

\* C21 witness: with rate limiting off, a check has been made after the clock
\* moved on from requests made at the start.
C21_Witness ==
    /\ ~config.enableRateLimiting
    /\ rlCall.kind = "check"
    /\ rlCall.at > 0
    /\ rlResult = [ allowed |-> TRUE ]
    /\ rateLimitMap = EmptyMap

\* ---- The suspicious-header check, under SpecEdge ----

\* The last request reached the header check (its host is trusted) carrying
\* x-forwarded-host, x-original-url or x-rewrite-url.
SuspiciousReachedCheck ==
    /\ mwCall.kind = "edge"
    /\ mwCall.matched
    /\ mwResponse.status # 403
    /\ \/ mwCall.request.headers.xForwardedHost # ""
       \/ mwCall.request.headers.xOriginalUrl # ""
       \/ mwCall.request.headers.xRewriteUrl # ""

RejectedBadRequest == mwResponse.status = 400 /\ mwResponse.body = "Bad Request"

RejectedBeforeRateLimit ==
    /\ mwCall'.kind = "edge"
    /\ mwCall'.matched
    /\ mwResponse'.kind = "response"
    /\ \/ mwResponse'.status = 403 /\ ~validateTrustedHost(mwCall'.request)
       \/ mwResponse'.status = 400

\* C28: the middleware checks trusted host, then suspicious headers, then the
\* rate limit: a request answered 403 (untrusted host) or 400 (suspicious
\* headers) leaves the rate-limit map as it was and uses none of the client's
\* quota; a request with an untrusted host is answered 403 even when it also
\* carries a suspicious header.
C28_RejectedLeavesQuota ==
    [][ /\ RejectedBeforeRateLimit => rateLimitMap' = rateLimitMap
        /\ (mwCall'.kind = "edge" /\ mwCall'.matched
              /\ ~validateTrustedHost(mwCall'.request)) => mwResponse'.status = 403
      ]_vars

\* C28 witness: with rate limiting on, a client that already has an entry has
\* been answered 400.
C28_Witness ==
    /\ config.enableRateLimiting
    /\ mwCall.kind = "edge"
    /\ mwCall.matched
    /\ mwResponse.status = 400
    /\ getClientIdentifier(mwCall.request) \in DOMAIN rateLimitMap
    /\ rateLimitMap[getClientIdentifier(mwCall.request)].count >= 1

\* ---- Eviction, under SpecEvict ----

\* The step is a setCachedData call.
IsPutStep == cacheOp'.kind = "put" /\ (cacheOp' # cacheOp \/ cache' # cache)

\* ceil(n * 0.1) for n >= 0: the least k with 10 * k >= n
ExpectedRemoved(n) == CHOOSE k \in 0..n : 10 * k >= n /\ 10 * (k - 1) < n

\* The entries of c at the positions outside gone, in order.
Without(c, gone) ==
    LET kept(i) == Cardinality({ j \in 1..i : j \notin gone })
    IN [ k \in 1..(Len(c) - Cardinality(gone)) |->
           c[CHOOSE i \in 1..Len(c) : i \notin gone /\ kept(i) = k] ]

\* The positions in cache of the entries a put step can have evicted: those
\* whose key is not in cache' and, possibly, that of the key being put (which
\* is in cache' whether or not it was evicted first).
EvictedCandidates ==
    LET vanished == { i \in 1..Len(cache) :
                        /\ cache[i].key # cacheOp'.key
                        /\ \A j \in 1..Len(cache') : cache'[j].key # cache[i].key }
        same     == { i \in 1..Len(cache) : cache[i].key = cacheOp'.key }
    IN { vanished, vanished \cup same }

\* C23: when put is called with cache size >= cacheMaxSize, exactly
\* ceil(cacheMaxSize * 0.1) entries are removed before the insert, and they are
\* the oldest by storedAt: no surviving entry has a storedAt strictly smaller
\* than that of an evicted entry.
C23_EvictsOldestTenth ==
    [][ ( /\ IsPutStep
          /\ config.enableCache
          /\ config.cacheMaxSize >= 0
          /\ Len(cache) >= config.cacheMaxSize )
        => \E gone \in EvictedCandidates :
              /\ Cardinality(gone) = ExpectedRemoved(config.cacheMaxSize)
              /\ \A i \in gone, j \in (1..Len(cache)) \ gone :
                    cache[j].timestamp >= cache[i].timestamp
              /\ cache' = CacheSet(Without(cache, gone), cacheOp'.key,
                                   [ data |-> cacheOp'.data, timestamp |-> now ])
      ]_vars

\* C23 witness: a put into a full cache of MaxEvictSize entries has removed two
\* of them and left entries stored at instant 0 and at instant 1.
C23_Witness ==
    /\ cacheOp.kind = "put"
    /\ config.cacheMaxSize = MaxEvictSize
    /\ cacheOp.evicted = ExpectedRemoved(MaxEvictSize)
    /\ cacheOp.evicted >= 2
    /\ Len(cache) = MaxEvictSize - 1
    /\ \E i \in 1..Len(cache) : cache[i].timestamp = 0
    /\ \E i \in 1..Len(cache) : cache[i].timestamp = 1

\* ---- Recency, under SpecCache ----

C25_DeniedOnlyByOwnTier ==
    RLEnabledCall =>
       /\ ~rlResult.allowed =>
             tierAllowed[rlCall.tier] >= RATE_LIMIT_CONFIG[rlCall.tier].maxRequests
       /\ ~rlCall.pre.had =>
             rateLimitMap[rlCall.clientId].resetTime =
                rlCall.at + RATE_LIMIT_CONFIG[rlCall.tier].windowMs

\* ---- Requests of one client in one tier, in any order, under SpecRL ----

\* C30: checkRateLimit has no suspension point, so the checks of simultaneous
\* requests of one client run one after the other in some order; in every such
\* order no increment is lost (the entry's count is the number of requests
\* allowed since the window opened) and the number of requests allowed between
\* the opening of a window and its resetTime never exceeds maxRequests.
C30_NoLostIncrement ==
    RLEnabledCall =>
       /\ rlCall.clientId \in DOMAIN rateLimitMap
       /\ rateLimitMap[rlCall.clientId].count = tierAllowed[rlCall.tier]
       /\ tierAllowed[rlCall.tier] <= RATE_LIMIT_CONFIG[rlCall.tier].maxRequests
       /\ \A tier \in DOMAIN RATE_LIMIT_CONFIG \ { rlCall.tier } : tierAllowed[tier] = 0

\* C30 witness: in the search tier the whole quota has been allowed within the
\* window and the next request has been denied.
C30_Witness ==
    /\ RLEnabledCall
    /\ rlCall.tier = "search"
    /\ tierAllowed.search = RATE_LIMIT_CONFIG.search.maxRequests
    /\ rateLimitMap[rlCall.clientId].count = RATE_LIMIT_CONFIG.search.maxRequests
    /\ rlResult.allowed = FALSE
    /\ rlCall.at <= rateLimitMap[rlCall.clientId].resetTime

\* ---- Error responses of GET, under SpecGet ----

\* C26: in every error response of GET /api/weather the HTTP status of the
\* response equals the statusCode field of the JSON error body, for every
\* failure kind, the rejection of a method other than GET included.
C26_StatusMatchesBody ==
    \A h \in Handlers :
       (handlers[h].pc = "done" /\ handlers[h].failure # "none") =>
          handlers[h].response.status = handlers[h].response.body.error.statusCode

\* A typed API error, by the name of its class
ApiErrorNames ==
    { "ValidationError", "NotFoundError", "UnauthorizedError", "ForbiddenError",
      "RateLimitError", "ExternalApiError", "CacheError" }

\* C27: every invocation of the GET handler returns a response, either 200 with
\* a snapshot or a structured JSON error; no exception escapes the handler,
\* under every configuration, one without the provider API key included; and
\* an exception that is not a typed API error is answered with status 500.
C27_AlwaysResponds ==
    \A h \in Handlers :
       /\ handlers[h].pc # "threw"
       /\ handlers[h].pc = "done" =>
             /\ handlers[h].failure = "none" => handlers[h].response.status = 200
             /\ handlers[h].failure # "none" =>
                   /\ "error" \in DOMAIN handlers[h].response.body
                   /\ { "message", "code", "statusCode" }
                         \subseteq DOMAIN handlers[h].response.body.error
             /\ handlers[h].thrown \notin ApiErrorNames \cup { "none" } =>
                   handlers[h].response.status = 500

\* ---- What a HIT serves, under SpecHit ----

\* The last invocation of h answered from the cache.
AnsweredHit(h) ==
    /\ handlers[h].pc = "done"
    /\ handlers[h].failure = "none"
    /\ HasHeader(handlers[h].response, "X-Cache")
    /\ handlers[h].response.headers["X-Cache"] = "HIT"

\* The step ends an invocation in a failure.
EndsInFailure(h) ==
    /\ handlers'[h] # handlers[h]
    /\ handlers'[h].pc = "done"
    /\ handlers'[h].failure # "none"

\* C29: whenever GET responds with X-Cache: HIT, the snapshot served is the
\* value of the most recent put for that lowercased city key and was stored at
\* most ttlSeconds * 1000 ms before the lookup; and a step that ends an
\* invocation in a failed validation or a failed fetch leaves the cache as it
\* was, so a failure never adds or changes a cache entry.
C29_HitServesLastPut ==
    /\ [](\A h \in Handlers :
            AnsweredHit(h) =>
               /\ cacheOp.kind = "get"
               /\ cacheOp.key \in DOMAIN lastPut.puts
               /\ handlers[h].response.body = lastPut.puts[cacheOp.key].data
               /\ cacheOp.at - lastPut.puts[cacheOp.key].at
                     <= config.cacheTtlSeconds * 1000)
    /\ [][ \A h \in Handlers : EndsInFailure(h) => cache' = cache ]_vars

\* C29 witness: a HIT has served a snapshot stored after the start, exactly
\* ttlSeconds after it was stored.
C29_Witness ==
    \E h \in Handlers :
       /\ AnsweredHit(h)
       /\ cacheOp.kind = "get"
       /\ cacheOp.key \in DOMAIN lastPut.puts
       /\ lastPut.puts[cacheOp.key].at > 0
       /\ cacheOp.at - lastPut.puts[cacheOp.key].at = config.cacheTtlSeconds * 1000
       /\ handlers[h].response.body = lastPut.puts[cacheOp.key].data

====
